---- MODULE Spec2Model ----
(***************************************************************************)
(* A model of todo-collector.py: the markdown file discovery generator     *)
(* (get_markdown_files), the TODO line parser (analyze_todos_in_file) and  *)
(* the driver (main).                                                      *)
(*                                                                         *)
(* Strings are sequences of one-character strings, so that slicing,        *)
(* find, strip, join and abspath are computed the way Python computes      *)
(* them.                                                                   *)
(***************************************************************************)
EXTENDS Integers, Sequences, FiniteSets, TLC

VARIABLES
    \* ---- the file system and the process environment
    kind,        \* node -> "absent" | "file" | "dir" | "nolist" | "other"
    cwdOk,       \* FALSE: os.getcwd() raises (the working directory is gone)
    \* ---- the arguments of main / get_markdown_files
    path,        \* PATH, a string
    exclude,     \* the --exclude list, a sequence of strings
    who,         \* --who
    skip_done,   \* --skip-done
    output,      \* --output
    pathNode,    \* history: the file-system node PATH denotes
    exclNodes,   \* history: the file-system nodes the --exclude entries denote
    \* ---- the generator get_markdown_files
    gen,         \* "created" | "running" | "suspended" | "returned"
    aexclude,    \* the canonicalized exclusion list
    todo,        \* the work list; each entry is [p |-> string, node |-> id]
    failed,      \* perror was called by the generator (a fatal discovery error)
    yielded,     \* history: the entries yielded so far, in order
    popped,      \* history: the entries popped so far, in order
    \* ---- main
    pc,          \* "loop" | "write" | "returned" (and "walk" / "parse" below)
    todos,       \* the accumulated Todo list
    h,           \* "none" | "stdout" | "file" | "closed"
    idx,         \* position of the report loop in todos (1-based)
    out,         \* the lines written to the sink, in order
    outIdx,      \* history: for each written line, the index in todos it came from
    opens,       \* number of times the named output file was opened
    closes,      \* number of times the named output file was closed
    exit,        \* main's return value (-1: not returned yet)
    \* ---- the contents of the files
    content      \* node -> the lines of the file, as readlines() returns them

vars == <<kind, cwdOk, path, exclude, who, skip_done, output, pathNode, exclNodes, gen, aexclude, todo,
          failed, yielded, popped, pc, todos, h, idx, out, outIdx, opens, closes,
          exit, content>>

fsVars   == <<kind, cwdOk, content>>
argVars  == <<path, exclude, who, skip_done, output, pathNode, exclNodes>>
genVars  == <<gen, aexclude, todo, failed, yielded, popped>>
mainVars == <<pc, todos, h, idx, out, outIdx, opens, closes, exit>>

\* ------------------------------------------------------------------ bounds
\* Number of nodes of the candidate directory tree.
MaxNodes == 5
\* Largest number of --exclude entries.
MaxExclude == 1
\* Longest free part of a line under analysis.
MaxTail == 4
\* Largest number of lines in one file read by main.
MaxLines == 2

\* ------------------------------------------------------------ Python strings
Min(a, b) == IF a < b THEN a ELSE b
Max(a, b) == IF a > b THEN a ELSE b

\* s[:n]
Take(s, n) == SubSeq(s, 1, Min(n, Len(s)))
\* s[n:]
Drop(s, n) == SubSeq(s, n + 1, Len(s))
\* s[-n:]
Last(s, n) == SubSeq(s, Max(1, Len(s) - n + 1), Len(s))

\* s.find(c): the 0-based index of the first c in s, or -1
Find(s, c) ==
    IF \E i \in 1..Len(s) : s[i] = c
    THEN (CHOOSE i \in 1..Len(s) : s[i] = c /\ \A j \in 1..(i - 1) : s[j] # c) - 1
    ELSE -1

\* The characters str.strip() removes (of those that occur in the model).
Whitespace == {" ", "\n", "\t"}

RECURSIVE LStrip(_)
LStrip(s) == IF s # <<>> /\ Head(s) \in Whitespace THEN LStrip(Tail(s)) ELSE s

RECURSIVE RStrip(_)
RStrip(s) ==
    IF s # <<>> /\ s[Len(s)] \in Whitespace THEN RStrip(SubSeq(s, 1, Len(s) - 1)) ELSE s

\* s.strip()
Strip(s) == RStrip(LStrip(s))

\* ------------------------------------------------------------------ os.path
\* The recursive string operators below bind their arguments with a set
\* constructor over singletons, which evaluates each argument once.
RECURSIVE SplitAcc(_, _, _)
\* One character of the scan of s.split("/"): cur is the component being read.
SplitStep(s, cur, acc) ==
    IF s = <<>> THEN Append(acc, cur)
    ELSE IF Head(s) = "/" THEN SplitAcc(Tail(s), <<>>, Append(acc, cur))
    ELSE SplitAcc(Tail(s), Append(cur, Head(s)), acc)

SplitAcc(s0, cur0, acc0) ==
    CHOOSE r \in {SplitStep(s, cur, acc) : s \in {s0}, cur \in {cur0}, acc \in {acc0}} : TRUE

\* s.split("/")
Split(s) == SplitAcc(s, <<>>, <<>>)

RECURSIVE JoinComps(_)
\* "/".join(comps)
JoinComps(comps) ==
    IF comps = <<>> THEN <<>>
    ELSE IF Len(comps) = 1 THEN comps[1]
    ELSE comps[1] \o <<"/">> \o JoinComps(Tail(comps))

isabs(s) == s # <<>> /\ Head(s) = "/"

\* os.path.join(a, b) on POSIX
join(a, b) ==
    IF isabs(b) THEN b
    ELSE IF a = <<>> \/ a[Len(a)] = "/" THEN a \o b
    ELSE a \o <<"/">> \o b

RECURSIVE NormComps(_, _, _)
\* One round of the component loop of posixpath.normpath.
NormStep(comps, new, initial) ==
    IF comps = <<>> THEN new
    ELSE LET comp == Head(comps) IN
         IF comp = <<>> \/ comp = <<".">> THEN NormComps(Tail(comps), new, initial)
         ELSE IF \/ comp # <<".", ".">>
                 \/ (~initial /\ new = <<>>)
                 \/ (new # <<>> /\ new[Len(new)] = <<".", ".">>)
              THEN NormComps(Tail(comps), Append(new, comp), initial)
         ELSE IF new # <<>>
              THEN NormComps(Tail(comps), SubSeq(new, 1, Len(new) - 1), initial)
         ELSE NormComps(Tail(comps), new, initial)

\* The component loop of posixpath.normpath.
NormComps(c0, n0, initial) ==
    CHOOSE r \in {NormStep(c, n, initial) : c \in {c0}, n \in {n0}} : TRUE

\* posixpath.normpath (paths with exactly two leading slashes do not occur)
normpath(s) ==
    IF s = <<>> THEN <<".">>
    ELSE LET initial == isabs(s)
             body    == JoinComps(NormComps(Split(s), <<>>, initial))
             res     == IF initial THEN <<"/">> \o body ELSE body
         IN  IF res = <<>> THEN <<".">> ELSE res

\* The working directory of the process: "/w".
cwd == <<"/", "w">>

\* os.path.abspath(p), when os.getcwd() succeeds
abspath(p) == normpath(IF isabs(p) THEN p ELSE join(cwd, p))

\* os.path.abspath(p) raises: p is relative and os.getcwd() fails
abspathRaises(p) == ~isabs(p) /\ ~cwdOk

\* ------------------------------------------------------------ the file system
Nodes == 1..MaxNodes
Kinds == {"absent", "file", "dir", "nolist", "other"}

\* The candidate tree: node 1 is the root, node i >= 2 lies in node i \div 2.
Parent(i) == i \div 2

Digits == <<"1", "2", "3", "4", "5", "6", "7", "8", "9">>

\* The name of a node's directory entry.
Name(i) ==
    IF i = 1 THEN <<"r">>
    ELSE IF i % 4 = 1 THEN <<Digits[i], "m", "d">>
    ELSE <<Digits[i], ".", "m", "d">>

RECURSIVE RelPath(_)
\* The node's path relative to the working directory.
RelPath(i) == IF i = 1 THEN Name(1) ELSE RelPath(Parent(i)) \o <<"/">> \o Name(i)

\* The spellings of a node's path a user can type.
Spell(style, i) ==
    CASE style = "rel" -> RelPath(i)
      [] style = "dot" -> <<".", "/">> \o RelPath(i)
      [] style = "abs" -> cwd \o <<"/">> \o RelPath(i)
      [] style = "up"  -> <<".", ".", "/", "w", "/">> \o RelPath(i)

\* A tree: entries exist only inside listable directories.
IsTree(k) == \A i \in Nodes \ {1} : k[i] # "absent" => k[Parent(i)] = "dir"

\* os.path.isfile / os.path.isdir of the object a work-list entry denotes
isfile(e) == kind[e.node] = "file"
isdir(e)  == kind[e.node] \in {"dir", "nolist"}

\* The entries of a directory node.
Children(n) == {c \in Nodes : c # 1 /\ Parent(c) = n /\ kind[c] # "absent"}

\* The orders in which os.listdir may return a set of entries.
Orders(S) ==
    {s \in [1..Cardinality(S) -> S] : \A a, b \in 1..Cardinality(S) : a # b => s[a] # s[b]}

\* [os.path.join(p, entry) for entry in os.listdir(p)], for one listing order
Listing(e, order) ==
    [k \in 1..Len(order) |-> [p |-> join(e.p, Name(order[k])), node |-> order[k]]]

\* ---------------------------------------------------- get_markdown_files
\* Mutant: the test looks at the last two characters only.
IsMarkdown_NoDot(p) == Len(p) >= 2 /\ Last(p, 2) = <<"m", "d">>

\* p ends in ".md"
IsMarkdown(p) == Len(p) >= 3 /\ Last(p, 3) = <<".", "m", "d">>

\* Mutant: the popped path is compared as spelled, not canonicalized.
Excluded_Raw(p) == \E k \in 1..Len(aexclude) : aexclude[k] = p

\* abspath(p) in aexclude
Excluded(p) == \E k \in 1..Len(aexclude) : aexclude[k] = abspath(p)

\* The exclusion list is canonicalized and the work list set up (first next()).
get_markdown_files_begin ==
    /\ gen = "created"
    /\ IF \E k \in 1..Len(exclude) : abspathRaises(exclude[k])
       THEN /\ gen' = "returned"
            /\ failed' = TRUE
            /\ UNCHANGED <<aexclude, todo>>
       ELSE /\ gen' = "running"
            /\ aexclude' = [k \in 1..Len(exclude) |-> abspath(exclude[k])]
            /\ todo' = <<[p |-> path, node |-> pathNode]>>
            /\ UNCHANGED failed
    /\ UNCHANGED <<yielded, popped>>

\* todo.pop(): the last entry of the work list
Top == todo[Len(todo)]
\* Mutant: the entry is read but left on the work list.
Rest_Kept == todo

\* The work list after todo.pop()
Rest == SubSeq(todo, 1, Len(todo) - 1)

Popping == gen = "running" /\ todo # <<>>

\* Canonicalizing the popped entry fails: perror, return.
get_markdown_files_canonfail ==
    /\ Popping
    /\ abspathRaises(Top.p)
    /\ todo' = Rest
    /\ popped' = Append(popped, Top)
    /\ gen' = "returned"
    /\ failed' = TRUE
    /\ UNCHANGED <<aexclude, yielded>>

\* The popped entry is excluded: continue.
get_markdown_files_exclude ==
    /\ Popping
    /\ ~abspathRaises(Top.p)
    /\ Excluded(Top.p)
    /\ todo' = Rest
    /\ popped' = Append(popped, Top)
    /\ UNCHANGED <<gen, aexclude, failed, yielded>>

\* The popped entry is a file: yield it if it ends in ".md".
get_markdown_files_file ==
    /\ Popping
    /\ ~abspathRaises(Top.p)
    /\ ~Excluded(Top.p)
    /\ isfile(Top)
    /\ todo' = Rest
    /\ popped' = Append(popped, Top)
    /\ IF IsMarkdown(Top.p)
       THEN gen' = "suspended" /\ yielded' = Append(yielded, Top)
       ELSE UNCHANGED <<gen, yielded>>
    /\ UNCHANGED <<aexclude, failed>>

\* The popped entry is a directory: its children are added to the work list.
get_markdown_files_dir ==
    /\ Popping
    /\ ~abspathRaises(Top.p)
    /\ ~Excluded(Top.p)
    /\ ~isfile(Top)
    /\ isdir(Top)
    /\ kind[Top.node] = "dir"
    /\ \E order \in Orders(Children(Top.node)) :
          todo' = Rest \o Listing(Top, order)
    /\ popped' = Append(popped, Top)
    /\ UNCHANGED <<gen, aexclude, failed, yielded>>

\* The popped entry is a directory and os.listdir raises: perror, return.
get_markdown_files_listfail ==
    /\ Popping
    /\ ~abspathRaises(Top.p)
    /\ ~Excluded(Top.p)
    /\ ~isfile(Top)
    /\ isdir(Top)
    /\ kind[Top.node] = "nolist"
    /\ todo' = Rest
    /\ popped' = Append(popped, Top)
    /\ gen' = "returned"
    /\ failed' = TRUE
    /\ UNCHANGED <<aexclude, yielded>>

\* The popped entry is neither a file nor a directory: perror, return.
get_markdown_files_neither ==
    /\ Popping
    /\ ~abspathRaises(Top.p)
    /\ ~Excluded(Top.p)
    /\ ~isfile(Top)
    /\ ~isdir(Top)
    /\ todo' = Rest
    /\ popped' = Append(popped, Top)
    /\ gen' = "returned"
    /\ failed' = TRUE
    /\ UNCHANGED <<aexclude, yielded>>

\* The work list is empty: the loop ends and the generator returns.
get_markdown_files_end ==
    /\ gen = "running"
    /\ todo = <<>>
    /\ gen' = "returned"
    /\ UNCHANGED <<aexclude, todo, failed, yielded, popped>>

\* One step of the generator, between two of its suspension points.
get_markdown_files ==
    \/ get_markdown_files_begin
    \/ get_markdown_files_canonfail
    \/ get_markdown_files_exclude
    \/ get_markdown_files_file
    \/ get_markdown_files_dir
    \/ get_markdown_files_listfail
    \/ get_markdown_files_neither
    \/ get_markdown_files_end

\* ------------------------------------------------------- the arguments
\* The pairs (spelling of PATH, spelling of the --exclude entries).
Styles == {<<"rel", "dot">>, <<"dot", "up">>, <<"abs", "rel">>}

\* The nodes PATH may denote.
PathNodes == {1, 2}

RECURSIVE SetToSeq(_)
\* The elements of a set of numbers, in increasing order.
SetToSeq(S) ==
    IF S = {} THEN <<>>
    ELSE LET m == CHOOSE x \in S : \A y \in S : x <= y
         IN  <<m>> \o SetToSeq(S \ {m})

\* The generator before its first step, and main before its loop.
Idle ==
    /\ gen = "created"
    /\ aexclude = <<>>
    /\ todo = <<>>
    /\ failed = FALSE
    /\ yielded = <<>>
    /\ popped = <<>>
    /\ todos = <<>>
    /\ h = "none"
    /\ idx = 1
    /\ out = <<>>
    /\ outIdx = <<>>
    /\ opens = 0
    /\ closes = 0
    /\ exit = -1

\* ------------------------------------------------- analyze_todos_in_file
\* Todo(done, who, what, file); line is history: the number of the line in its
\* file the Todo was made from.
Todo(done, name, what, file, n) ==
    [done |-> done, who |-> name, what |-> what, file |-> file, line |-> n]

\* Mutant: the description keeps its trailing whitespace.
What_LeftStripped(line) == LStrip(line)

\* The description of a Todo: line.strip()
What(line) == Strip(line)

\* The body of the loop over the lines: the Todos (none or one) appended for
\* line number n of the file at path, for the person target.
analyze_line(line, target, file, n) ==
    IF Len(line) >= 3 /\ Take(line, 3) = <<"-", " ", "[">>
    THEN LET l1   == Drop(line, 3)
             isX  == Len(l1) >= 4 /\ Take(l1, 4) = <<"x", "]", " ", "[">>
             isSp == Len(l1) >= 4 /\ Take(l1, 4) = <<" ", "]", " ", "[">>
             done == isX
             l2   == IF isX \/ isSp THEN Drop(l1, 4) ELSE l1
             pos  == Find(l2, "]")
         IN  IF pos >= 0
             THEN LET name == Take(l2, pos)
                      l3   == Drop(l2, pos + 1)
                  IN  IF name = target
                      THEN <<Todo(done, name, What(l3), file, n)>>
                      ELSE <<>>
             ELSE <<>>
    ELSE <<>>

RECURSIVE analyze_lines(_, _, _, _)
\* The loop over h.readlines(), from line number n on.
analyze_lines(lines, target, file, n) ==
    IF n > Len(lines) THEN <<>>
    ELSE analyze_line(lines[n], target, file, n) \o analyze_lines(lines, target, file, n + 1)

\* analyze_todos_in_file(path, who), for a file that can be read; e is the
\* yielded work-list entry.
analyze_todos_in_file(e, target) == analyze_lines(content[e.node], target, e.p, 1)

\* ------------------------------------------------ the analysis on its own
\* The characters of the free part of a line.
Alphabet == {"A", "]", "[", " ", "x"}

\* The strings over Alphabet of length at most n.
Strings(n) == UNION {[1..k -> Alphabet] : k \in 0..n}

\* How the lines under analysis begin.
Heads ==
    { <<>>,
      <<"-">>,
      <<"-", " ">>,
      <<"-", " ", "[">>,
      <<"-", " ", "[", "x">>,
      <<"-", " ", "[", "x", "]">>,
      <<"-", " ", "[", "x", "]", " ">>,
      <<"-", " ", "[", "x", "]", " ", "[">>,
      <<"-", " ", "[", " ", "]">>,
      <<"-", " ", "[", " ", "]", " ", "[">>,
      <<"-", " ", "[", "X", "]", " ", "[">>,
      <<"-", " ", "[", "x", "]", "[">>,
      <<" ", "-", " ", "[", "x", "]", " ", "[">>,
      <<"*", " ", "[", " ", "]", " ", "[">> }

\* The lines under analysis: the last line of a file may lack its newline.
Lines == {hd \o tl \o nl : hd \in Heads, tl \in Strings(MaxTail), nl \in {<<>>, <<"\n">>}} \ {<<>>}

\* The persons searched for.
Persons == {<<>>, <<"A">>, <<"x">>, <<"A", " ">>}

\* A line that is a well-formed open TODO of the person target.
Sentinel(target) ==
    <<"-", " ", "[", " ", "]", " ", "[">> \o target \o <<"]", " ", "z", "\n">>

\* analyze_todos_in_file is about to be called on the file "r", which holds
\* one line of Lines, alone or followed by well-formed lines.
ParseInit ==
    /\ kind = [i \in Nodes |-> IF i = 1 THEN "file" ELSE "absent"]
    /\ cwdOk = TRUE
    /\ pathNode = 1
    /\ exclNodes = {}
    /\ path = Spell("rel", 1)
    /\ exclude = <<>>
    /\ who \in Persons
    /\ \E ln \in Lines : \E more \in 0..(MaxLines - 1) :
          /\ more > 0 => ln[Len(ln)] = "\n"
          /\ content = [i \in Nodes |->
                          IF i # 1 THEN <<>>
                          ELSE <<ln>> \o [k \in 1..more |-> Sentinel(who)]]
    /\ skip_done = FALSE
    /\ output = <<"-">>
    /\ pc = "parse"
    /\ Idle

\* todos = analyze_todos_in_file(path, who)
parse_call ==
    /\ pc = "parse"
    /\ pc' = "parsed"
    /\ todos' = analyze_todos_in_file([p |-> path, node |-> pathNode], who)
    /\ UNCHANGED <<fsVars, argVars, genVars, h, idx, out, outIdx, opens, closes, exit>>

ParseNext == parse_call

ParseSpec == ParseInit /\ [][ParseNext]_vars

\* ------------------------------------------------ properties of the analysis
\* The file analysed and the Todos made from its line number n.
Analysed == content[pathNode]
FromLine(n) == {k \in 1..Len(todos) : todos[k].line = n}

\* The line starts with "- [".
Bulleted(line) ==
    Len(line) >= 3 /\ line[1] = "-" /\ line[2] = " " /\ line[3] = "["

\* The line starts with "- [x] [" or "- [ ] [".
Marked(line) ==
    /\ Len(line) >= 7
    /\ Bulleted(line)
    /\ line[4] \in {"x", " "}
    /\ line[5] = "]" /\ line[6] = " " /\ line[7] = "["

\* The line is "- [" c "] [" name "]" rest, with c "x" or " " and no "]" in name.
WellFormed(line) == Marked(line) /\ \E j \in 8..Len(line) : line[j] = "]"

\* The place of the "]" that closes the name of a well-formed line.
Close(line) ==
    CHOOSE j \in 8..Len(line) : line[j] = "]" /\ \A k \in 8..(j - 1) : line[k] # "]"

NameOf(line) == [k \in 1..(Close(line) - 8) |-> line[k + 7]]
RestOf(line) == [k \in 1..(Len(line) - Close(line)) |-> line[Close(line) + k]]

\* r without the whitespace around it.
Trimmed(r) ==
    LET ink == {k \in 1..Len(r) : r[k] \notin Whitespace} IN
    IF ink = {} THEN <<>>
    ELSE LET lo == CHOOSE k \in ink : \A m \in ink : k <= m
             hi == CHOOSE k \in ink : \A m \in ink : k >= m
         IN  [k \in 1..(hi - lo + 1) |-> r[lo + k - 1]]

\* What a well-formed line number n is to give.
Expected(n) ==
    LET line == Analysed[n] IN
    IF NameOf(line) = who
    THEN <<[done |-> line[4] = "x", who |-> NameOf(line),
            what |-> Trimmed(RestOf(line)), file |-> path, line |-> n]>>
    ELSE <<>>

RECURSIVE ExpectedFrom(_)
ExpectedFrom(n) == IF n > Len(Analysed) THEN <<>> ELSE Expected(n) \o ExpectedFrom(n + 1)

\* C4: a line that starts with "- [" and goes on with neither "x] [" nor " ] ["
\* gives no Todo, whoever is searched for.
C4_UnmarkedLineSkipped ==
    pc = "parsed" =>
        \A n \in 1..Len(Analysed) :
            (Bulleted(Analysed[n]) /\ ~Marked(Analysed[n])) => FromLine(n) = {}

\* C5: a file of well-formed lines gives, in the order of its lines, one Todo
\* for each line whose name is exactly the person searched for, with done, who,
\* what (stripped) and file as the line and the path say, and none for the other
\* lines; and every Todo of every file has who equal to the person searched for.
C5_WellFormedLine ==
    pc = "parsed" =>
        /\ (\A n \in 1..Len(Analysed) : WellFormed(Analysed[n])) => todos = ExpectedFrom(1)
        /\ \A k \in 1..Len(todos) : todos[k].who = who

\* A done line of the person searched for, with whitespace around its
\* description, was analysed and gave its Todo; so did the line after it.
C5_Witness ==
    /\ pc = "parsed"
    /\ Len(Analysed) >= 2
    /\ WellFormed(Analysed[1])
    /\ Analysed[1][4] = "x"
    /\ NameOf(Analysed[1]) = who /\ who # <<>>
    /\ Len(todos) = Len(Analysed)
    /\ todos[1].done /\ todos[1].what # <<>>
    /\ Len(todos[1].what) + 1 < Len(RestOf(Analysed[1]))

\* C6: a line with no "]" after its marker, and a line shorter than the marker
\* ("- [x] [", seven characters), gives no Todo, and the next line is analysed.
C6_UnterminatedOrShortLineSkipped ==
    pc = "parsed" =>
        \A n \in 1..Len(Analysed) :
            LET line == Analysed[n] IN
            ((Marked(line) /\ ~WellFormed(line)) \/ Len(line) < 7) =>
                /\ FromLine(n) = {}
                /\ n < Len(Analysed) => FromLine(n + 1) # {}

\* ------------------------------------------- the discovery on its own
\* A consumer that iterates the generator to exhaustion: for p in get_markdown_files(..)
walk_next ==
    /\ pc = "walk"
    /\ gen = "suspended"
    /\ gen' = "running"
    /\ UNCHANGED <<aexclude, todo, failed, yielded, popped>>

\* The trees of files and directories of the model.
Trees == {k \in [Nodes -> Kinds] : IsTree(k)}

\* The sets of nodes an --exclude list may name.
ExcludeSets == {S \in SUBSET Nodes : Cardinality(S) <= MaxExclude}

\* The --exclude list naming the nodes S, in one spelling.
ExcludeOf(style, S) == [k \in 1..Cardinality(S) |-> Spell(style, SetToSeq(S)[k])]

\* get_markdown_files(path, exclude) is called on some file system.
WalkInit ==
    /\ kind \in Trees
    /\ cwdOk \in BOOLEAN
    /\ content = [i \in Nodes |-> <<>>]
    /\ pathNode \in PathNodes
    /\ exclNodes \in ExcludeSets
    /\ \E st \in Styles :
          /\ path = Spell(st[1], pathNode)
          /\ exclude = ExcludeOf(st[2], exclNodes)
    /\ who = <<>>
    /\ skip_done = FALSE
    /\ output = <<"-">>
    /\ pc = "walk"
    /\ Idle

WalkNext ==
    \/ get_markdown_files /\ UNCHANGED <<fsVars, argVars, mainVars>>
    \/ walk_next /\ UNCHANGED <<fsVars, argVars, pc, todos, h, idx, out, outIdx,
                                 opens, closes, exit>>

\* The discovery, iterated to exhaustion by its consumer.
WalkSpec == WalkInit /\ [][WalkNext]_vars

\* The calls with PATH the root of the tree, spelled relative, and at most one
\* --exclude entry.
LiveInit ==
    /\ WalkInit
    /\ pathNode = 1
    /\ path = Spell("rel", 1)
    /\ Cardinality(exclNodes) <= 1

\* The same discovery; the interpreter runs the generator and its consumer
\* whenever they can step.
WalkLive == LiveInit /\ [][WalkNext]_vars /\ WF_vars(WalkNext)

\* ----------------------------------------------- properties of the discovery
RECURSIVE Ancestors(_)
\* The directories a node lies beneath.
Ancestors(i) == IF i = 1 THEN {} ELSE {Parent(i)} \cup Ancestors(Parent(i))

\* The nodes of the tree PATH is the root of.
Scanned == {i \in Nodes : kind[i] # "absent" /\ (i = pathNode \/ pathNode \in Ancestors(i))}

\* The name of a node's entry ends in ".md".
NamedMarkdown(i) ==
    LET n == Name(i) IN
    Len(n) >= 3 /\ n[Len(n) - 2] = "." /\ n[Len(n) - 1] = "m" /\ n[Len(n)] = "d"

YieldedNodes == {yielded[k].node : k \in 1..Len(yielded)}

\* C1 as stated: no yielded path is excluded, and none lies beneath any excluded
\* directory, for every PATH and every exclusion list.
C1_AnyExcludedDirectory ==
    \A i \in YieldedNodes : i \notin exclNodes /\ Ancestors(i) \cap exclNodes = {}

\* C1 amended: no yielded path is excluded, and none lies beneath an excluded
\* directory that is PATH itself or lies beneath PATH.
C1_NoExcludedYielded ==
    \A i \in YieldedNodes :
        /\ i \notin exclNodes
        /\ Ancestors(i) \cap Scanned \cap exclNodes = {}

\* An excluded directory holding a markdown file was popped and skipped, and the
\* walk went on to yield another file.
C1_Witness ==
    /\ gen = "returned" /\ ~failed /\ yielded # <<>>
    /\ \E e \in exclNodes :
          /\ kind[e] = "dir"
          /\ \E k \in 1..Len(popped) : popped[k].node = e
          /\ \E c \in Nodes : c # 1 /\ Parent(c) = e /\ kind[c] = "file" /\ NamedMarkdown(c)

\* The yielded sequence is, without repetition, exactly the set S of nodes, each
\* under the path a join from PATH gives it.
YieldsExactly(S) ==
    /\ YieldedNodes = S
    /\ \A a, b \in 1..Len(yielded) : a # b => yielded[a] # yielded[b]
    /\ \A a, b \in 1..Len(yielded) : a # b => yielded[a].node # yielded[b].node
    /\ \A k \in 1..Len(yielded) :
          \E st \in Styles : path = Spell(st[1], pathNode)
                               /\ yielded[k].p = Spell(st[1], yielded[k].node)

\* C2 as stated: without an error, the yielded sequence holds exactly once each
\* regular ".md" file of the tree that is neither excluded nor beneath any
\* excluded directory.
C2_AnyExcludedDirectory ==
    (gen = "returned" /\ ~failed) =>
        YieldsExactly({i \in Scanned : /\ kind[i] = "file"
                                        /\ NamedMarkdown(i)
                                        /\ i \notin exclNodes
                                        /\ Ancestors(i) \cap exclNodes = {}})

\* C2 amended: without an error, the yielded sequence holds exactly once each
\* regular ".md" file of the tree that is neither excluded nor beneath an excluded
\* directory of the tree (PATH or a directory beneath PATH), and nothing else.
C2_YieldsExactlyMarkdown ==
    (gen = "returned" /\ ~failed) =>
        YieldsExactly({i \in Scanned : /\ kind[i] = "file"
                                        /\ NamedMarkdown(i)
                                        /\ i \notin exclNodes
                                        /\ Ancestors(i) \cap Scanned \cap exclNodes = {}})

\* A walk without error over a tree with a yielded markdown file, a regular file
\* of another extension, a directory and an excluded entry.
C2_Witness ==
    /\ gen = "returned" /\ ~failed
    /\ yielded # <<>>
    /\ \E i \in Scanned : kind[i] = "file" /\ ~NamedMarkdown(i) /\ i \notin exclNodes
                            /\ \E k \in 1..Len(popped) : popped[k].node = i
    /\ exclNodes \cap Scanned # {}

NoDuplicatePops ==
    \A a, b \in 1..Len(popped) : a # b => popped[a].p # popped[b].p

\* C9: over every finite tree the work-list loop terminates (the work list is
\* empty or a fatal error has stopped the walk), and no path is popped twice.
C9_Terminates ==
    /\ <>(gen = "returned" /\ (todo = <<>> \/ failed))
    /\ []NoDuplicatePops

\* A walk that popped four paths and ended on the empty work list.
C9_Witness ==
    gen = "returned" /\ ~failed /\ todo = <<>> /\ Len(popped) >= 4

\* ------------------------------------------------------------------- main
\* The report line of a Todo:
\* f"- [{'x' if todo.done else ' '}] [{todo.who}] {todo.what} ({todo.file})\n"
Format(t) ==
    <<"-", " ", "[">> \o (IF t.done THEN <<"x">> ELSE <<" ">>) \o <<"]", " ", "[">>
        \o t.who \o <<"]", " ">> \o t.what \o <<" ", "(">> \o t.file \o <<")", "\n">>

\* Mutant: the Todos of a file are put in front of those collected before.
Accumulate_InFront(old, new) == new \o old

\* todos += analyze_todos_in_file(file, who)
Accumulate(old, new) == old \o new

\* Mutant: no Todo is left out of the report.
Skipped_Never(t) == FALSE

\* if skip_done and todo.done: continue
Skipped(t) == skip_done /\ t.done

\* The error numbers of the IOError that open(path, "r"), open(output, "w") and
\* h.write may raise (ENOENT, EACCES; EACCES, EISDIR; EIO, ENOSPC).
ReadErrnos == {2, 13}
OpenErrnos == {13, 21}
WriteErrnos == {5, 28}

\* The file the generator is suspended on: the loop variable of main.
file == yielded[Len(yielded)]

\* for file in get_markdown_files(path, exclude): the generator runs up to its
\* next yield or to its end.
main_next ==
    /\ pc = "loop"
    /\ get_markdown_files
    /\ UNCHANGED <<fsVars, argVars, mainVars>>

\* The body of the loop: the Todos of the yielded file are collected.
main_analyze ==
    /\ pc = "loop"
    /\ gen = "suspended"
    /\ todos' = Accumulate(todos, analyze_todos_in_file(file, who))
    /\ gen' = "running"
    /\ UNCHANGED <<fsVars, argVars, aexclude, todo, failed, yielded, popped,
                   pc, h, idx, out, outIdx, opens, closes, exit>>

\* The yielded file cannot be opened or read: perror, return e.errno.
main_analyze_fail ==
    /\ pc = "loop"
    /\ gen = "suspended"
    /\ \E e \in ReadErrnos : exit' = e
    /\ pc' = "returned"
    /\ UNCHANGED <<fsVars, argVars, genVars, todos, h, idx, out, outIdx, opens, closes>>

\* The loop is over and output is "-": h = sys.stdout
main_open_stdout ==
    /\ pc = "loop"
    /\ gen = "returned"
    /\ output = <<"-">>
    /\ h' = "stdout"
    /\ pc' = "write"
    /\ UNCHANGED <<fsVars, argVars, genVars, todos, idx, out, outIdx, opens, closes, exit>>

\* The loop is over and output names a file: h = open(output, "w")
main_open ==
    /\ pc = "loop"
    /\ gen = "returned"
    /\ output # <<"-">>
    /\ h' = "file"
    /\ opens' = opens + 1
    /\ out' = <<>>
    /\ pc' = "write"
    /\ UNCHANGED <<fsVars, argVars, genVars, todos, idx, outIdx, closes, exit>>

\* open(output, "w") raises: perror, return e.errno.
main_open_fail ==
    /\ pc = "loop"
    /\ gen = "returned"
    /\ output # <<"-">>
    /\ \E e \in OpenErrnos : exit' = e
    /\ pc' = "returned"
    /\ UNCHANGED <<fsVars, argVars, genVars, todos, h, idx, out, outIdx, opens, closes>>

Writing == pc = "write" /\ idx <= Len(todos)

\* for todo in todos: a done Todo is passed over when skip_done is set.
main_skip ==
    /\ Writing
    /\ Skipped(todos[idx])
    /\ idx' = idx + 1
    /\ UNCHANGED <<fsVars, argVars, genVars, pc, todos, h, out, outIdx, opens, closes, exit>>

\* h.write(...) of the report line of the Todo
main_write ==
    /\ Writing
    /\ ~Skipped(todos[idx])
    /\ out' = Append(out, Format(todos[idx]))
    /\ outIdx' = Append(outIdx, idx)
    /\ idx' = idx + 1
    /\ UNCHANGED <<fsVars, argVars, genVars, pc, todos, h, opens, closes, exit>>

\* h.write(...) raises: perror, return e.errno.
main_write_fail ==
    /\ Writing
    /\ ~Skipped(todos[idx])
    /\ \E e \in WriteErrnos : exit' = e
    /\ pc' = "returned"
    /\ UNCHANGED <<fsVars, argVars, genVars, todos, h, idx, out, outIdx, opens, closes>>

\* h.close(); return 0
main_close ==
    /\ pc = "write"
    /\ idx > Len(todos)
    /\ closes' = IF h = "file" THEN closes + 1 ELSE closes
    /\ h' = "closed"
    /\ exit' = 0
    /\ pc' = "returned"
    /\ UNCHANGED <<fsVars, argVars, genVars, todos, idx, out, outIdx, opens>>

\* The lines the notes are made of: open and done TODOs of A, and one of B.
Pool ==
    << <<"-", " ", "[", " ", "]", " ", "[", "A", "]", " ", "a", "\n">>,
       <<"-", " ", "[", " ", "]", " ", "[", "A", "]", " ", "b", "\n">>,
       <<"-", " ", "[", "x", "]", " ", "[", "A", "]", " ", "c", "\n">>,
       <<"-", " ", "[", " ", "]", " ", "[", "B", "]", " ", "d", "\n">> >>

\* Notes of n lines for every regular file of the tree k, different from file to file.
Notes(k, n) ==
    [i \in Nodes |->
        IF k[i] = "file" THEN [l \in 1..n |-> Pool[((i + l) % Len(Pool)) + 1]] ELSE <<>>]

\* The values of --output.
Outputs == {<<"-">>, <<"o">>}

\* main(path, output, exclude, who, skip_done) is called with PATH the root of
\* some tree, for the TODOs of A.
Init ==
    /\ kind \in Trees
    /\ cwdOk \in BOOLEAN
    /\ \E n \in 1..MaxLines : content = Notes(kind, n)
    /\ pathNode = 1
    /\ path = Spell("rel", 1)
    /\ exclNodes \in {S \in ExcludeSets : S \subseteq {2, 3}}
    /\ exclude = ExcludeOf("dot", exclNodes)
    /\ who = <<"A">>
    /\ skip_done \in BOOLEAN
    /\ output \in Outputs
    /\ pc = "loop"
    /\ Idle

Next ==
    \/ main_next
    \/ main_analyze
    \/ main_analyze_fail
    \/ main_open_stdout
    \/ main_open
    \/ main_open_fail
    \/ main_skip
    \/ main_write
    \/ main_write_fail
    \/ main_close

Spec == Init /\ [][Next]_vars

\* ------------------------------------------------------ properties of main
Returned == pc = "returned"

\* C3: a run of main whose discovery hit a fatal error returns a status other
\* than 0; status 0 is returned only by runs without a fatal error.
C3_FatalErrorExitsNonZero == (Returned /\ failed) => exit # 0

\* Where a file comes in the sequence of yielded files.
YieldPos(f) == CHOOSE k \in 1..Len(yielded) : yielded[k].p = f

\* The Todo t was collected before the Todo u: its file was yielded earlier, or
\* it is from an earlier line of the same file.
Before(t, u) ==
    \/ YieldPos(t.file) < YieldPos(u.file)
    \/ t.file = u.file /\ t.line < u.line

\* The Todo the k-th report line was written for.
Src(k) == todos[outIdx[k]]

\* C7: the report lines are the lines of collected Todos and come in the order
\* of accumulation: of two report lines, the earlier is from the file yielded
\* earlier or, within one file, from the earlier line, skip_done or not.
C7_ReportInAccumulationOrder ==
    /\ Len(outIdx) = Len(out)
    /\ \A k \in 1..Len(out) : out[k] = Format(Src(k))
    /\ \A i, j \in 1..Len(out) : i < j => Before(Src(i), Src(j))

\* A finished report with two lines from one file and two from different
\* files, out of which a done Todo was left.
C7_Witness ==
    /\ Returned /\ exit = 0
    /\ skip_done
    /\ Len(out) < Len(todos)
    /\ \E i, j \in 1..Len(out) : i < j /\ Src(i).file = Src(j).file
    /\ \E i, j \in 1..Len(out) : i < j /\ Src(i).file # Src(j).file

\* The report begins a line with "- [x]".
DoneLine(l) == Len(l) >= 5 /\ SubSeq(l, 1, 5) = <<"-", " ", "[", "x", "]">>

RECURSIVE Report(_)
\* The report of the Todos from number k on, as skip_done wants it.
Report(k) ==
    IF k > Len(todos) THEN <<>>
    ELSE (IF skip_done /\ todos[k].done THEN <<>> ELSE <<Format(todos[k])>>) \o Report(k + 1)

NoDoneLine == skip_done => \A k \in 1..Len(out) : ~DoneLine(out[k])

\* C8 as stated: with skip_done no line of a done Todo is written, and of every
\* run of main the output holds every collected Todo that skip_done keeps.
C8_EveryRunWritesAll ==
    /\ NoDoneLine
    /\ Returned => out = Report(1)

\* C8: with skip_done no line of a done Todo is ever written; and when main
\* returns 0 the output holds, in order, the line of every collected Todo that is
\* not done and, unless skip_done is set, of every done one as well.
C8_SkipDone ==
    /\ NoDoneLine
    /\ (Returned /\ exit = 0) => out = Report(1)

\* A finished report with skip_done set, some Todo written and a done one left out.
C8_Witness ==
    /\ Returned /\ exit = 0
    /\ skip_done
    /\ out # <<>>
    /\ \E k \in 1..Len(todos) : todos[k].done

\* C10: when main has returned after opening a named output file, the file has
\* been closed exactly once, whether main succeeded or a write failed.
C10_ClosedExactlyOnce == (Returned /\ opens > 0) => (closes = 1 /\ h = "closed")

====
